---- MODULE Spec2Model ----
(***************************************************************************)
(* Model of packages/shared-llm/src/cost-tracker.py: the CostTracker       *)
(* ledger, its lock, and the threads that call record, the summary         *)
(* methods, agent_observability, observability_report and reset.           *)
(*                                                                         *)
(* Representation.                                                         *)
(*  - CallRecord objects live in `heap`; the ledger `records` and every    *)
(*    local list hold references (indices into heap), as Python lists do.  *)
(*  - Strings that the code only compares for equality are TLA+ strings;   *)
(*    the model identifier, which is lower-cased and searched for          *)
(*    substrings, is a sequence of one-character strings.                  *)
(*  - Money is an integer number of 1e-8 USD: a rate of the pricing table  *)
(*    is in 1e-5 USD per 1K tokens, so tokens * rate is in 1e-8 USD.       *)
(*    Quotients (error_rate, avg_latency_ms) are reduced fractions.        *)
(*  - A float is such an integer with a significand of SignificandBits     *)
(*    bits: a sum of floats is rounded to the nearest float, ties to the   *)
(*    even significand.  The two prices of a call are rounded once, as     *)
(*    the cost of the call.  Quotients are not rounded.                    *)
(*  - The built-in sum() adds floats from left to right before CPython     *)
(*    3.12 and with Neumaier's compensation from 3.12 on; `py_sum` is the  *)
(*    one the interpreter of the run has.                                  *)
(*  - `with self._lock:` is two steps: the acquisition, and the body       *)
(*    together with the release.                                           *)
(*  - The calling threads are writers, which call record and reset, and    *)
(*    one reader, which calls the summaries, agent_observability and       *)
(*    observability_report.  Every method is a sequence of steps that      *)
(*    interleave with the steps of the other threads.                      *)
(*  - Variables marked `history` are not program state: they record what   *)
(*    happened, for the properties to refer to.                            *)
(***************************************************************************)
EXTENDS Integers, Sequences, FiniteSets, TLC

VARIABLES
    lock,       \* self._lock: the thread holding it, or NoThread
    records,    \* self._records: sequence of references into heap
    heap,       \* every CallRecord object constructed so far
    pc,         \* per thread: position in the method it is executing
    op,         \* per thread: the method being executed and its argument
    local,      \* per thread: the local variables `record`, `records`, `agent_names`
    out,        \* per thread: the dict observability_report is building
    ret,        \* per thread: the value the method returned
    resets,     \* number of reset calls started
    now,        \* the clock that time.time() reads
    py_sum,     \* how the built-in sum() of the interpreter adds floats
    kept,       \* the summaries of one ledger state that the reader collects
    prev,       \* the last query result the reader kept, with its call
    atLock,     \* history, per thread: what it found when it last acquired the lock
    repLock,    \* history, per thread: atLock of the agent_names section of a report
    lockOrder,  \* history: references in the order their record calls acquired
                \* the lock, since the last clear
    appended,   \* history: the CallRecord values as they were when appended
    returned,   \* history: number of record calls that have returned
    sinceReset, \* history: number of appends since the last clear
    everCallers \* history: every caller value ever appended

vars == <<lock, records, heap, pc, op, local, out, ret, resets, now, prev,
          py_sum, kept,
          atLock, repLock, lockOrder, appended, returned, sinceReset, everCallers>>

hist == <<atLock, repLock, lockOrder, appended, returned, sinceReset, everCallers>>

\* ---------------------------------------------------------------- bounds

\* threads that call record and reset
NWriters == 2
\* record calls in one run
MaxRecords == 3
\* records of one agent in the ledgers on which the percentiles are checked
MaxAgentRecords == 5
\* reset calls in one run
MaxResets == 1
\* record calls in one run of the specification with the fair scheduler
MaxFairRecords == 2
\* the last reading of the clock
MaxClock == 2
\* record calls in one run of the specification that checks the pricing
MaxPricedRecords == 2

Writers == 1..NWriters
\* the thread that calls the summaries, agent_observability and the report
Reader == NWriters + 1
Threads == Writers \cup {Reader}
\* the value of `lock` while no thread holds it
NoThread == 0

\* ------------------------------------------------- strings as characters

UpperChars ==
    <<"A","B","C","D","E","F","G","H","I","J","K","L","M",
      "N","O","P","Q","R","S","T","U","V","W","X","Y","Z">>

LowerChars ==
    <<"a","b","c","d","e","f","g","h","i","j","k","l","m",
      "n","o","p","q","r","s","t","u","v","w","x","y","z">>

LowerChar(c) ==
    IF \E i \in 1..26 : UpperChars[i] = c
    THEN LowerChars[CHOOSE i \in 1..26 : UpperChars[i] = c]
    ELSE c

\* str.lower()
lower(s) == [i \in 1..Len(s) |-> LowerChar(s[i])]

\* `sub in s` for strings
Contains(sub, s) ==
    \E i \in 0..(Len(s) - Len(sub)) : SubSeq(s, i + 1, i + Len(sub)) = sub

\* ----------------------------------------------------------------- floats

\* the bits of the significand of a float
SignificandBits == 24
Significand == 2 ^ SignificandBits

\* the distance between the floats next to x >= 0: the least power of two q
\* with x < Significand * q
RECURSIVE Quantum(_, _)
Quantum(x, q) == IF x < Significand * q THEN q ELSE Quantum(x, 2 * q)

\* the float nearest to x >= 0, a tie going to the even significand
RoundAbs(x) ==
    LET q == Quantum(x, 1)
        r == x % q
        d == x - r
    IN IF 2 * r < q THEN d
       ELSE IF 2 * r > q THEN d + q
       ELSE IF (d \div q) % 2 = 0 THEN d ELSE d + q

\* the float nearest to x; v names the value of x, so that an expression given
\* for x is evaluated once
Round(x) ==
    CHOOSE f \in {IF v < 0 THEN 0 - RoundAbs(0 - v) ELSE RoundAbs(v) : v \in {x}} : TRUE

\* a + b and a - b of floats
fadd(a, b) == Round(a + b)
fsub(a, b) == Round(a - b)

Abs(x) == IF x < 0 THEN 0 - x ELSE x

\* the built-in sum() of floats before CPython 3.12: result = result + item
RECURSIVE SumLeftToRight(_, _, _)
SumLeftToRight(i, xs, result) ==
    IF i > Len(xs) THEN result
    ELSE SumLeftToRight(i + 1, xs, fadd(result, xs[i]))

\* the built-in sum() of floats from CPython 3.12 on: the rounding errors of
\* the additions are collected in c and added at the end
RECURSIVE SumCompensated(_, _, _, _)
SumCompensated(i, xs, f_result, c) ==
    IF i > Len(xs)
    THEN IF c # 0 THEN fadd(f_result, c) ELSE f_result
    ELSE LET x == xs[i]
             t == fadd(f_result, x)
             e == IF Abs(f_result) >= Abs(x)
                  THEN fadd(fsub(f_result, t), x)
                  ELSE fadd(fsub(x, t), f_result)
         IN SumCompensated(i + 1, xs, t, fadd(c, e))

\* the ways the built-in sum() adds floats
SumImpls == {"left_to_right", "compensated"}

\* sum(...) of floats; the first item is added to the int 0
fsum(xs) ==
    IF xs = <<>> THEN 0
    ELSE IF py_sum = "compensated"
         THEN SumCompensated(2, xs, xs[1], 0)
         ELSE SumLeftToRight(2, xs, xs[1])

\* ---------------------------------------------------------------- pricing

DEFAULT_PRICING ==
    << [prefix |-> <<"d","e","e","p","s","e","e","k">>,
        prompt_rate |-> 15, completion_rate |-> 45],
       [prefix |-> <<"m","e","t","a","-","l","l","a","m","a">>,
        prompt_rate |-> 18, completion_rate |-> 18],
       [prefix |-> <<"c","l","a","u","d","e","-","h","a","i","k","u">>,
        prompt_rate |-> 100, completion_rate |-> 500],
       [prefix |-> <<"c","l","a","u","d","e","-","s","o","n","n","e","t">>,
        prompt_rate |-> 300, completion_rate |-> 1500],
       [prefix |-> <<"c","l","a","u","d","e","-","o","p","u","s">>,
        prompt_rate |-> 1500, completion_rate |-> 7500],
       [prefix |-> <<"g","p","t","-","4","o","-","m","i","n","i">>,
        prompt_rate |-> 15, completion_rate |-> 60],
       [prefix |-> <<"g","p","t","-","4","o">>,
        prompt_rate |-> 250, completion_rate |-> 1000] >>

FallbackPromptRate == 300
FallbackCompletionRate == 1500

\* a loop that keeps the last matching entry: the entries from i on
RECURSIVE PriceFromLastMatch(_, _, _, _)
PriceFromLastMatch(i, model, prompt_tokens, completion_tokens) ==
    LET M == {k \in i..Len(DEFAULT_PRICING) :
                 Contains(DEFAULT_PRICING[k].prefix, lower(model))}
    IN IF M = {}
       THEN prompt_tokens * FallbackPromptRate
            + completion_tokens * FallbackCompletionRate
       ELSE LET k == CHOOSE x \in M : \A y \in M : y <= x
            IN prompt_tokens * DEFAULT_PRICING[k].prompt_rate
               + completion_tokens * DEFAULT_PRICING[k].completion_rate

RECURSIVE PriceFrom(_, _, _, _)
PriceFrom(i, model, prompt_tokens, completion_tokens) ==
    IF i > Len(DEFAULT_PRICING)
    THEN prompt_tokens * FallbackPromptRate
         + completion_tokens * FallbackCompletionRate
    ELSE IF Contains(DEFAULT_PRICING[i].prefix, lower(model))
         THEN prompt_tokens * DEFAULT_PRICING[i].prompt_rate
              + completion_tokens * DEFAULT_PRICING[i].completion_rate
         ELSE PriceFrom(i + 1, model, prompt_tokens, completion_tokens)

estimate_cost(model, prompt_tokens, completion_tokens) ==
    Round(PriceFrom(1, model, prompt_tokens, completion_tokens))

\* ------------------------------------------------------ inputs of record

Model_GPT4oMini == <<"G","P","T","-","4","o","-","m","i","n","i">>
Model_ClaudeOpus == <<"c","l","a","u","d","e","-","o","p","u","s","-","4">>
Model_GPT4o ==
    <<"g","p","t","-","4","o","-","2","0","2","4">>
Model_ClaudeSonnet ==
    <<"C","l","a","u","d","e","-","S","o","n","n","e","t","-","4">>
Model_ClaudeHaiku ==
    <<"o","p","e","n","r","o","u","t","e","r","/","c","l","a","u","d","e","-","h","a","i","k","u">>
Model_DeepSeek ==
    <<"d","e","e","p","s","e","e","k","-","c","h","a","t">>
Model_Llama ==
    <<"m","e","t","a","-","l","l","a","m","a","/","L","l","a","m","a","-","3">>
Model_Unknown ==
    <<"m","i","s","t","r","a","l","-","7","b">>

\* The keyword arguments the writers pass to record: a successful call and a
\* failed one, of different agents, providers and conversations.
RecordArgs ==
    { [provider |-> "openai", model |-> Model_GPT4oMini, caller |-> "judge",
       conversation_id |-> "conv-1", prompt_tokens |-> 1000,
       completion_tokens |-> 500, duration_ms |-> 20, success |-> TRUE],
      [provider |-> "anthropic", model |-> Model_ClaudeOpus, caller |-> "jd_agent",
       conversation_id |-> "", prompt_tokens |-> 200,
       completion_tokens |-> 100, duration_ms |-> 10, success |-> FALSE] }

\* The model identifiers on which the pricing is checked: one for each entry
\* of the table, in either case and with the prefix at the start or in the
\* middle, and one that no entry matches.
PricedModels ==
    {Model_GPT4oMini, Model_GPT4o, Model_ClaudeOpus, Model_ClaudeSonnet,
     Model_ClaudeHaiku, Model_DeepSeek, Model_Llama, Model_Unknown}

PromptCounts == {0, 1000}
CompletionCounts == {0, 500}

\* The keyword arguments of the record calls on which the pricing is checked.
PriceArgs ==
    { [provider |-> "openai", model |-> m, caller |-> "judge",
       conversation_id |-> "", prompt_tokens |-> p, completion_tokens |-> c,
       duration_ms |-> 20, success |-> ok] :
        m \in PricedModels, p \in PromptCounts, c \in CompletionCounts,
        ok \in BOOLEAN }

\* The keyword arguments of the record calls on which agent_observability
\* is compared with caller_summary: a call whose cost needs every bit of the
\* significand, a call that costs little, a failed call, and a call of
\* another agent.
AgreeArgs ==
    { [provider |-> "anthropic", model |-> Model_ClaudeHaiku,
       caller |-> "judge", conversation_id |-> "", prompt_tokens |-> 167775,
       completion_tokens |-> 0, duration_ms |-> 20, success |-> TRUE],
      [provider |-> "deepseek", model |-> Model_DeepSeek,
       caller |-> "judge", conversation_id |-> "", prompt_tokens |-> 1,
       completion_tokens |-> 0, duration_ms |-> 10, success |-> TRUE],
      [provider |-> "anthropic", model |-> Model_ClaudeOpus,
       caller |-> "judge", conversation_id |-> "", prompt_tokens |-> 200,
       completion_tokens |-> 100, duration_ms |-> 10, success |-> FALSE],
      [provider |-> "openai", model |-> Model_GPT4oMini,
       caller |-> "jd_agent", conversation_id |-> "", prompt_tokens |-> 1000,
       completion_tokens |-> 500, duration_ms |-> 20, success |-> TRUE] }

\* The keyword arguments of the record calls on which the summaries of the
\* three dimensions are added up: two callers, two providers and two
\* conversation ids, one of them empty, in different combinations.
PartArgs ==
    RecordArgs
    \cup { [provider |-> "openai", model |-> Model_GPT4oMini,
            caller |-> "jd_agent", conversation_id |-> "",
            prompt_tokens |-> 10, completion_tokens |-> 5, duration_ms |-> 30,
            success |-> TRUE] }

\* The arguments the reader passes to the summaries that are added up.
PartCallers == {"judge", "jd_agent"}
PartProviders == {"openai", "anthropic"}
PartConversations == {"", "conv-1"}

\* The names the reader passes to both caller_summary and agent_observability.
AgreeNames == {"judge", "nonexistent"}

\* The arguments the reader passes to the queries.
ConversationArgs == {""}
ProviderArgs == {"openai"}
CallerArgs == {"judge"}
AgentArgs == {"jd_agent", "nonexistent"}

\* Agent names in ascending order of Python's str comparison.
AgentOrder == <<"jd_agent", "judge", "nonexistent", "synthesis">>

StrRank(s) == CHOOSE i \in 1..Len(AgentOrder) : AgentOrder[i] = s

StrLess(a, b) == StrRank(a) < StrRank(b)

\* ------------------------------------------------------------ data types

\* a record whose total counts the prompt tokens only
CallRecordTotalIsPrompt(a) ==
    [provider |-> a.provider,
     model |-> a.model,
     caller |-> a.caller,
     conversation_id |-> a.conversation_id,
     prompt_tokens |-> a.prompt_tokens,
     completion_tokens |-> a.completion_tokens,
     total_tokens |-> a.prompt_tokens,
     estimated_cost_usd |->
         IF a.success
         THEN estimate_cost(a.model, a.prompt_tokens, a.completion_tokens)
         ELSE 0,
     duration_ms |-> a.duration_ms,
     success |-> a.success,
     timestamp |-> now]

\* a record stamped with the time its call started
CallRecordStartTime(a) ==
    [provider |-> a.provider,
     model |-> a.model,
     caller |-> a.caller,
     conversation_id |-> a.conversation_id,
     prompt_tokens |-> a.prompt_tokens,
     completion_tokens |-> a.completion_tokens,
     total_tokens |-> a.prompt_tokens + a.completion_tokens,
     estimated_cost_usd |->
         IF a.success
         THEN estimate_cost(a.model, a.prompt_tokens, a.completion_tokens)
         ELSE 0,
     duration_ms |-> a.duration_ms,
     success |-> a.success,
     timestamp |-> now - a.duration_ms]

\* a record that is priced whether the call succeeded or not
CallRecordAlwaysPriced(a) ==
    [provider |-> a.provider,
     model |-> a.model,
     caller |-> a.caller,
     conversation_id |-> a.conversation_id,
     prompt_tokens |-> a.prompt_tokens,
     completion_tokens |-> a.completion_tokens,
     total_tokens |-> a.prompt_tokens + a.completion_tokens,
     estimated_cost_usd |->
         estimate_cost(a.model, a.prompt_tokens, a.completion_tokens),
     duration_ms |-> a.duration_ms,
     success |-> a.success,
     timestamp |-> now]

\* CallRecord(...) as record() constructs it
CallRecord(a) ==
    [provider |-> a.provider,
     model |-> a.model,
     caller |-> a.caller,
     conversation_id |-> a.conversation_id,
     prompt_tokens |-> a.prompt_tokens,
     completion_tokens |-> a.completion_tokens,
     total_tokens |-> a.prompt_tokens + a.completion_tokens,
     estimated_cost_usd |->
         IF a.success
         THEN estimate_cost(a.model, a.prompt_tokens, a.completion_tokens)
         ELSE 0,
     duration_ms |-> a.duration_ms,
     success |-> a.success,
     timestamp |-> now]

\* CostSummary()
CostSummary ==
    [total_calls |-> 0, successful_calls |-> 0, failed_calls |-> 0,
     total_prompt_tokens |-> 0, total_completion_tokens |-> 0,
     total_tokens |-> 0, total_cost_usd |-> 0, total_duration_ms |-> 0]

RECURSIVE GCD(_, _)
GCD(a, b) == IF b = 0 THEN a ELSE GCD(b, a % b)

\* the quotient n / d (d > 0) as a reduced fraction
Quotient(n, d) == [num |-> n \div GCD(n, d), den |-> d \div GCD(n, d)]

Zero == [num |-> 0, den |-> 1]

\* AgentObservability(agent_name=agent_name)
AgentObservability(agent_name) ==
    [agent_name |-> agent_name, call_count |-> 0, error_count |-> 0,
     error_rate |-> Zero, total_tokens |-> 0, total_cost_usd |-> 0,
     avg_latency_ms |-> Zero, p50_latency_ms |-> 0, p95_latency_ms |-> 0,
     max_latency_ms |-> 0]

\* ------------------------------------------------------- pure computation

\* the list of objects a list of references points to
Deref(refs) == [i \in 1..Len(refs) |-> heap[refs[i]]]

\* the loop of _aggregate with total_calls counted in the success branch
AggregateStepSuccessOnly(summary, r) ==
    [total_calls |-> summary.total_calls + (IF r.success THEN 1 ELSE 0),
     successful_calls |-> summary.successful_calls + (IF r.success THEN 1 ELSE 0),
     failed_calls |-> summary.failed_calls + (IF r.success THEN 0 ELSE 1),
     total_prompt_tokens |-> summary.total_prompt_tokens + r.prompt_tokens,
     total_completion_tokens |-> summary.total_completion_tokens + r.completion_tokens,
     total_tokens |-> summary.total_tokens + r.total_tokens,
     total_cost_usd |-> fadd(summary.total_cost_usd, r.estimated_cost_usd),
     total_duration_ms |-> fadd(summary.total_duration_ms, r.duration_ms)]

\* one iteration of the loop of _aggregate
AggregateStep(summary, r) ==
    [total_calls |-> summary.total_calls + 1,
     successful_calls |-> summary.successful_calls + (IF r.success THEN 1 ELSE 0),
     failed_calls |-> summary.failed_calls + (IF r.success THEN 0 ELSE 1),
     total_prompt_tokens |-> summary.total_prompt_tokens + r.prompt_tokens,
     total_completion_tokens |-> summary.total_completion_tokens + r.completion_tokens,
     total_tokens |-> summary.total_tokens + r.total_tokens,
     total_cost_usd |-> fadd(summary.total_cost_usd, r.estimated_cost_usd),
     total_duration_ms |-> fadd(summary.total_duration_ms, r.duration_ms)]

RECURSIVE AggregateFrom(_, _, _)
AggregateFrom(i, rs, summary) ==
    IF i > Len(rs) THEN summary
    ELSE AggregateFrom(i + 1, rs, AggregateStep(summary, rs[i]))

aggregate(rs) == AggregateFrom(1, rs, CostSummary)

\* insert v into the ascending sequence s, after the elements equal to it
RECURSIVE Insert(_, _)
Insert(s, v) ==
    IF s = <<>> THEN <<v>>
    ELSE IF v < Head(s) THEN <<v>> \o s
    ELSE <<Head(s)>> \o Insert(Tail(s), v)

RECURSIVE SortFrom(_, _, _)
SortFrom(i, xs, acc) ==
    IF i > Len(xs) THEN acc ELSE SortFrom(i + 1, xs, Insert(acc, xs[i]))

\* the durations left in ledger order: list(...) in place of sorted(...)
unsorted(xs) == xs

\* sorted(...) of a sequence of numbers
sorted(xs) == SortFrom(1, xs, <<>>)

RECURSIVE SortedNamesFrom(_)
SortedNamesFrom(S) ==
    IF S = {} THEN <<>>
    ELSE LET m == CHOOSE x \in S : \A y \in S \ {x} : StrLess(x, y)
         IN <<m>> \o SortedNamesFrom(S \ {m})

RECURSIVE DescendingNamesFrom(_)
DescendingNamesFrom(S) ==
    IF S = {} THEN <<>>
    ELSE LET m == CHOOSE x \in S : \A y \in S \ {x} : StrLess(y, x)
         IN <<m>> \o DescendingNamesFrom(S \ {m})

\* the names in an order that is not the ascending one: list(agent_names)
unsorted_names(S) == DescendingNamesFrom(S)

\* sorted(agent_names) of a set of strings
sorted_names(S) == SortedNamesFrom(S)

RECURSIVE SumFrom(_, _)
SumFrom(i, xs) == IF i > Len(xs) THEN 0 ELSE xs[i] + SumFrom(i + 1, xs)

\* sum(...) of ints
sum(xs) == SumFrom(1, xs)

Max2(a, b) == IF a >= b THEN a ELSE b
Min2(a, b) == IF a <= b THEN a ELSE b

\* the nearest-rank method with k = ceil(n * pct / 100) - 1
percentile_ceil(sorted_values, pct) ==
    IF sorted_values = <<>> THEN 0
    ELSE LET k == Max2(0, Min2(Len(sorted_values) - 1,
                                ((Len(sorted_values) * pct + 99) \div 100) - 1))
         IN sorted_values[k + 1]

\* _percentile; sequences are 1-based, so index k is element k + 1
percentile(sorted_values, pct) ==
    IF sorted_values = <<>> THEN 0
    ELSE LET k == Max2(0, Min2(Len(sorted_values) - 1,
                                (Len(sorted_values) * pct) \div 100))
         IN sorted_values[k + 1]

\* max(durations) for a sequence of numbers
max(xs) == CHOOSE m \in {xs[i] : i \in 1..Len(xs)} :
               \A i \in 1..Len(xs) : xs[i] <= m

\* agent_observability after its critical section, on the objects rs
observe(agent_name, rs) ==
    IF rs = <<>> THEN AgentObservability(agent_name)
    ELSE LET durations == sorted([i \in 1..Len(rs) |-> rs[i].duration_ms])
             success_count == sum([i \in 1..Len(rs) |-> IF rs[i].success THEN 1 ELSE 0])
             error_count == Len(rs) - success_count
         IN [agent_name |-> agent_name,
             call_count |-> Len(rs),
             error_count |-> error_count,
             error_rate |-> Quotient(error_count, Len(rs)),
             total_tokens |-> sum([i \in 1..Len(rs) |-> rs[i].total_tokens]),
             total_cost_usd |-> fsum([i \in 1..Len(rs) |-> rs[i].estimated_cost_usd]),
             avg_latency_ms |-> Quotient(fsum(durations), Len(durations)),
             p50_latency_ms |-> percentile(durations, 50),
             p95_latency_ms |-> percentile(durations, 95),
             max_latency_ms |-> max(durations)]

\* the comprehension of provider_summary testing r.caller
MatchesWrongField(kind, arg, r) ==
    CASE kind = "conversation" -> r.conversation_id = arg
      [] kind = "provider" -> r.caller = arg
      [] kind = "caller" -> r.caller = arg
      [] kind = "agent" -> r.caller = arg
      [] kind = "session" -> TRUE

\* conversation_summary taking the empty conversation id for "every record"
MatchesEmptyIsAll(kind, arg, r) ==
    CASE kind = "conversation" -> arg = "" \/ r.conversation_id = arg
      [] kind = "provider" -> r.provider = arg
      [] kind = "caller" -> r.caller = arg
      [] kind = "agent" -> r.caller = arg
      [] kind = "session" -> TRUE

\* the condition of the list comprehension of each query
Matches(kind, arg, r) ==
    CASE kind = "conversation" -> r.conversation_id = arg
      [] kind = "provider" -> r.provider = arg
      [] kind = "caller" -> r.caller = arg
      [] kind = "agent" -> r.caller = arg
      [] kind = "session" -> TRUE

\* [r for r in self._records if ...] and list(self._records)
Select(kind, arg) == SelectSeq(records, LAMBDA ref : Matches(kind, arg, heap[ref]))

\* {r.caller for r in self._records}
CallerSet == {heap[records[i]].caller : i \in 1..Len(records)}

\* a ledger that skips a record equal to one it already holds
ListAppendUnique(l, x) ==
    IF \E i \in 1..Len(l) : heap[l[i]] = heap[x] THEN l ELSE Append(l, x)

\* self._records.insert(0, record)
ListInsertFront(l, x) == <<x>> \o l

\* self._records.append(record)
ListAppend(l, x) == Append(l, x)

\* ------------------------------------------------------------------ state

SummaryKinds == {"conversation", "session", "provider", "caller"}

NoOp == [kind |-> "none", arg |-> ""]
NoLocal == [record |-> 0, records |-> <<>>, agent_names |-> {}]
None == [none |-> TRUE]
NoLock == [led |-> <<>>, n |-> 0, quiet |-> FALSE, returned |-> 0, ever |-> {},
           cleared |-> 0, version |-> 0]
NoPrev == [op |-> NoOp, ret |-> None, version |-> 0]

\* the ledger as a sequence of CallRecord values
Ledger == Deref(records)

\* a record call that has been started and has not returned
InRecord(t) == op[t].kind = "record" /\ pc[t] \in {"acq", "cs"}

\* the number of reset calls that have cleared the ledger
Cleared ==
    resets - Cardinality({u \in Threads : op[u].kind = "reset"
                                          /\ pc[u] \in {"acq", "cs"}})

\* the number of appends and clears so far
Version == returned + Cleared

\* what thread t finds when it acquires the lock
LockView(t) ==
    [led |-> Ledger,
     n |-> sinceReset,
     quiet |-> op[t].kind = "session" /\ resets = 0
               /\ \A u \in Threads : ~InRecord(u),
     returned |-> IF op[t].kind = "session" THEN returned ELSE 0,
     ever |-> IF op[t].kind = "report" THEN everCallers ELSE {},
     cleared |-> IF op[t].kind = "session" THEN Cleared ELSE 0,
     version |-> Version]

\* CostTracker.__init__, and no thread inside a method
Init ==
    /\ lock = NoThread
    /\ records = <<>>
    /\ heap = <<>>
    /\ pc = [t \in Threads |-> "idle"]
    /\ op = [t \in Threads |-> NoOp]
    /\ local = [t \in Threads |-> NoLocal]
    /\ out = [t \in Threads |-> <<>>]
    /\ ret = [t \in Threads |-> None]
    /\ resets = 0
    /\ now = 0
    /\ prev = NoPrev
    /\ py_sum \in SumImpls
    /\ kept = {}
    /\ atLock = [t \in Threads |-> NoLock]
    /\ repLock = [t \in Threads |-> NoLock]
    /\ lockOrder = <<>>
    /\ appended = <<>>
    /\ returned = 0
    /\ sinceReset = 0
    /\ everCallers = {}

\* ----------------------------------------------------------------- record

\* record(), up to `with self._lock`: total, cost and the CallRecord
RecordCall(t, a) ==
    /\ pc[t] = "idle"
    /\ Len(heap) < MaxRecords
    /\ heap' = Append(heap, CallRecord(a))
    /\ local' = [local EXCEPT ![t].record = Len(heap) + 1]
    /\ op' = [op EXCEPT ![t] = [kind |-> "record", arg |-> ""]]
    /\ pc' = [pc EXCEPT ![t] = "acq"]
    /\ UNCHANGED <<now, prev, py_sum, kept, lock, records, out, ret, resets, hist>>

\* a lock that does not wait for its holder
AcquireNoWait(t) ==
    /\ pc[t] \in {"acq", "i_acq"}
    /\ lock' = t
    /\ pc' = [pc EXCEPT ![t] = IF pc[t] = "acq" THEN "cs" ELSE "i_cs"]
    /\ atLock' = [atLock EXCEPT ![t] = LockView(t)]
    /\ repLock' = IF op[t].kind = "report" /\ pc[t] = "acq"
                  THEN [repLock EXCEPT ![t] = LockView(t)]
                  ELSE repLock
    /\ lockOrder' = IF op[t].kind = "record"
                    THEN Append(lockOrder, local[t].record)
                    ELSE lockOrder
    /\ UNCHANGED <<now, prev, py_sum, kept, records, heap, op, local, out, ret, resets,
                   appended, returned, sinceReset, everCallers>>

\* threading.Lock.__enter__ of every method
Acquire(t) ==
    /\ pc[t] \in {"acq", "i_acq"}
    /\ lock = NoThread
    /\ lock' = t
    /\ pc' = [pc EXCEPT ![t] = IF pc[t] = "acq" THEN "cs" ELSE "i_cs"]
    /\ atLock' = [atLock EXCEPT ![t] = LockView(t)]
    /\ repLock' = IF op[t].kind = "report" /\ pc[t] = "acq"
                  THEN [repLock EXCEPT ![t] = LockView(t)]
                  ELSE repLock
    /\ lockOrder' = IF op[t].kind = "record"
                    THEN Append(lockOrder, local[t].record)
                    ELSE lockOrder
    /\ UNCHANGED <<now, prev, py_sum, kept, records, heap, op, local, out, ret, resets,
                   appended, returned, sinceReset, everCallers>>

\* record(): the body of `with self._lock`, the release, and the return
RecordAppend(t) ==
    /\ pc[t] = "cs"
    /\ op[t].kind = "record"
    /\ records' = ListAppend(records, local[t].record)
    /\ lock' = NoThread
    /\ ret' = [ret EXCEPT ![t] = [ref |-> local[t].record]]
    /\ pc' = [pc EXCEPT ![t] = "done"]
    /\ appended' = Append(appended, heap[local[t].record])
    /\ returned' = returned + 1
    /\ sinceReset' = sinceReset + 1
    /\ everCallers' = everCallers \cup {heap[local[t].record].caller}
    /\ UNCHANGED <<now, prev, py_sum, kept, heap, op, local, out, resets, atLock, repLock, lockOrder>>

\* ---------------------------------------------------------------- queries

\* a call of conversation_summary, session_summary, provider_summary or
\* caller_summary
SummaryCall(t, kind, arg) ==
    /\ pc[t] = "idle"
    /\ kind \in SummaryKinds
    /\ op' = [op EXCEPT ![t] = [kind |-> kind, arg |-> arg]]
    /\ pc' = [pc EXCEPT ![t] = "acq"]
    /\ UNCHANGED <<now, prev, py_sum, kept, lock, records, heap, local, out, ret, resets, hist>>

\* a call of agent_observability
AgentCall(t, agent_name) ==
    /\ pc[t] = "idle"
    /\ op' = [op EXCEPT ![t] = [kind |-> "agent", arg |-> agent_name]]
    /\ pc' = [pc EXCEPT ![t] = "acq"]
    /\ UNCHANGED <<now, prev, py_sum, kept, lock, records, heap, local, out, ret, resets, hist>>

\* a snapshot that moves the records out of the ledger
SnapshotDrains(t) ==
    /\ pc[t] = "cs"
    /\ op[t].kind \in SummaryKinds \cup {"agent"}
    /\ local' = [local EXCEPT ![t].records = Select(op[t].kind, op[t].arg)]
    /\ records' = <<>>
    /\ lock' = NoThread
    /\ pc' = [pc EXCEPT ![t] = "agg"]
    /\ UNCHANGED <<now, prev, py_sum, kept, heap, op, out, ret, resets, hist>>

\* the body of `with self._lock` of the four summaries and of
\* agent_observability, and the release
Snapshot(t) ==
    /\ pc[t] = "cs"
    /\ op[t].kind \in SummaryKinds \cup {"agent"}
    /\ local' = [local EXCEPT ![t].records = Select(op[t].kind, op[t].arg)]
    /\ lock' = NoThread
    /\ pc' = [pc EXCEPT ![t] = "agg"]
    /\ UNCHANGED <<now, prev, py_sum, kept, records, heap, op, out, ret, resets, hist>>

\* return self._aggregate(records)
Aggregate(t) ==
    /\ pc[t] = "agg"
    /\ op[t].kind \in SummaryKinds
    /\ ret' = [ret EXCEPT ![t] = aggregate(Deref(local[t].records))]
    /\ pc' = [pc EXCEPT ![t] = "done"]
    /\ UNCHANGED <<now, prev, py_sum, kept, lock, records, heap, op, local, out, resets, hist>>

\* agent_observability after the lock is released
AgentCompute(t) ==
    /\ pc[t] = "agg"
    /\ op[t].kind = "agent"
    /\ ret' = [ret EXCEPT ![t] = observe(op[t].arg, Deref(local[t].records))]
    /\ pc' = [pc EXCEPT ![t] = "done"]
    /\ UNCHANGED <<now, prev, py_sum, kept, lock, records, heap, op, local, out, resets, hist>>

\* ----------------------------------------------------- observability_report

ReportCall(t) ==
    /\ pc[t] = "idle"
    /\ op' = [op EXCEPT ![t] = [kind |-> "report", arg |-> ""]]
    /\ pc' = [pc EXCEPT ![t] = "acq"]
    /\ UNCHANGED <<now, prev, py_sum, kept, lock, records, heap, local, out, ret, resets, hist>>

\* a report that keeps the lock while it calls agent_observability
ReportNamesHoldsLock(t) ==
    /\ pc[t] = "cs"
    /\ op[t].kind = "report"
    /\ local' = [local EXCEPT ![t].agent_names = CallerSet]
    /\ pc' = [pc EXCEPT ![t] = "agg"]
    /\ UNCHANGED <<now, prev, py_sum, kept, lock, records, heap, op, out, ret, resets, hist>>

\* agent_names = {r.caller for r in self._records}, and the release
ReportNames(t) ==
    /\ pc[t] = "cs"
    /\ op[t].kind = "report"
    /\ local' = [local EXCEPT ![t].agent_names = CallerSet]
    /\ lock' = NoThread
    /\ pc' = [pc EXCEPT ![t] = "agg"]
    /\ UNCHANGED <<now, prev, py_sum, kept, records, heap, op, out, ret, resets, hist>>

\* the keys of the dict comprehension, in iteration order
ReportKeys(t) == sorted_names(local[t].agent_names)

\* sorted(agent_names) and the start of the dict comprehension
ReportSort(t) ==
    /\ pc[t] = "agg"
    /\ op[t].kind = "report"
    /\ out' = [out EXCEPT ![t] = <<>>]
    /\ IF ReportKeys(t) = <<>>
       THEN /\ ret' = [ret EXCEPT ![t] = [items |-> <<>>]]
            /\ pc' = [pc EXCEPT ![t] = "done"]
       ELSE /\ ret' = ret
            /\ pc' = [pc EXCEPT ![t] = "i_acq"]
    /\ UNCHANGED <<now, prev, py_sum, kept, lock, records, heap, op, local, resets, hist>>

\* the name the comprehension is at
CurrentName(t) == ReportKeys(t)[Len(out[t]) + 1]

\* a report that computes every entry from the whole ledger
InnerSnapshotAll(t) ==
    /\ pc[t] = "i_cs"
    /\ local' = [local EXCEPT ![t].records = Select("session", "")]
    /\ lock' = NoThread
    /\ pc' = [pc EXCEPT ![t] = "i_agg"]
    /\ UNCHANGED <<now, prev, py_sum, kept, records, heap, op, out, ret, resets, hist>>

\* self.agent_observability(name) inside the comprehension: the body of
\* `with self._lock` and the release
InnerSnapshot(t) ==
    /\ pc[t] = "i_cs"
    /\ local' = [local EXCEPT ![t].records = Select("agent", CurrentName(t))]
    /\ lock' = NoThread
    /\ pc' = [pc EXCEPT ![t] = "i_agg"]
    /\ UNCHANGED <<now, prev, py_sum, kept, records, heap, op, out, ret, resets, hist>>

\* self.agent_observability(name) after the release, the insertion of the
\* entry, and the return of the report after the last name
InnerCompute(t) ==
    /\ pc[t] = "i_agg"
    /\ LET entry == [name |-> CurrentName(t),
                     value |-> observe(CurrentName(t), Deref(local[t].records))]
           items == Append(out[t], entry)
       IN /\ out' = [out EXCEPT ![t] = items]
          /\ IF Len(items) = Len(ReportKeys(t))
             THEN /\ ret' = [ret EXCEPT ![t] = [items |-> items]]
                  /\ pc' = [pc EXCEPT ![t] = "done"]
             ELSE /\ ret' = ret
                  /\ pc' = [pc EXCEPT ![t] = "i_acq"]
    /\ UNCHANGED <<now, prev, py_sum, kept, lock, records, heap, op, local, resets, hist>>

\* ------------------------------------------------------------------ reset

ResetCall(t) ==
    /\ pc[t] = "idle"
    /\ resets < MaxResets
    /\ resets' = resets + 1
    /\ op' = [op EXCEPT ![t] = [kind |-> "reset", arg |-> ""]]
    /\ pc' = [pc EXCEPT ![t] = "acq"]
    /\ UNCHANGED <<now, prev, py_sum, kept, lock, records, heap, local, out, ret, hist>>

\* a reset that removes the oldest record only: del self._records[0]
ResetDropsOldest(t) ==
    /\ pc[t] = "cs"
    /\ op[t].kind = "reset"
    /\ records' = IF records = <<>> THEN <<>> ELSE Tail(records)
    /\ lock' = NoThread
    /\ ret' = [ret EXCEPT ![t] = None]
    /\ pc' = [pc EXCEPT ![t] = "done"]
    /\ lockOrder' = <<>>
    /\ appended' = <<>>
    /\ sinceReset' = 0
    /\ UNCHANGED <<now, prev, py_sum, kept, heap, op, local, out, resets, atLock, repLock,
                   returned, everCallers>>

\* self._records.clear(), the release, and the return
ResetClear(t) ==
    /\ pc[t] = "cs"
    /\ op[t].kind = "reset"
    /\ records' = <<>>
    /\ lock' = NoThread
    /\ ret' = [ret EXCEPT ![t] = None]
    /\ pc' = [pc EXCEPT ![t] = "done"]
    /\ lockOrder' = <<>>
    /\ appended' = <<>>
    /\ sinceReset' = 0
    /\ UNCHANGED <<now, prev, py_sum, kept, heap, op, local, out, resets, atLock, repLock,
                   returned, everCallers>>

\* ----------------------------------------------------------------- caller

\* the caller drops the returned value and is ready for its next call
Finish(t) ==
    /\ pc[t] = "done"
    /\ pc' = [pc EXCEPT ![t] = "idle"]
    /\ op' = [op EXCEPT ![t] = NoOp]
    /\ local' = [local EXCEPT ![t] = NoLocal]
    /\ out' = [out EXCEPT ![t] = <<>>]
    /\ ret' = [ret EXCEPT ![t] = None]
    /\ atLock' = [atLock EXCEPT ![t] = NoLock]
    /\ repLock' = [repLock EXCEPT ![t] = NoLock]
    /\ UNCHANGED <<now, prev, py_sum, kept, lock, records, heap, resets, lockOrder, appended,
                   returned, sinceReset, everCallers>>

\* the methods that read the ledger
QueryKinds == SummaryKinds \cup {"agent", "report"}

\* the caller keeps the value a query returned, to compare it with the value
\* of its next call, and is ready for that call
Keep(t) ==
    /\ pc[t] = "done"
    /\ op[t].kind \in QueryKinds
    /\ prev' = [op |-> op[t], ret |-> ret[t],
                version |-> IF op[t].kind = "report"
                            THEN repLock[t].version
                            ELSE atLock[t].version]
    /\ pc' = [pc EXCEPT ![t] = "idle"]
    /\ op' = [op EXCEPT ![t] = NoOp]
    /\ local' = [local EXCEPT ![t] = NoLocal]
    /\ out' = [out EXCEPT ![t] = <<>>]
    /\ ret' = [ret EXCEPT ![t] = None]
    /\ atLock' = [atLock EXCEPT ![t] = NoLock]
    /\ repLock' = [repLock EXCEPT ![t] = NoLock]
    /\ UNCHANGED <<now, py_sum, kept, lock, records, heap, resets, lockOrder,
                   appended, returned, sinceReset, everCallers>>

\* the caller adds the summary it got to the summaries it has collected of
\* the same ledger state and the same method, and of session_summary,
\* dropping the others, and is ready for its next call
Collect(t) ==
    /\ pc[t] = "done"
    /\ op[t].kind \in SummaryKinds
    /\ kept' = {k \in kept : /\ k.version = atLock[t].version
                             /\ \/ k.op.kind = op[t].kind
                                \/ "session" \in {k.op.kind, op[t].kind}}
                   \cup {[op |-> op[t], ret |-> ret[t],
                          version |-> atLock[t].version,
                          led |-> atLock[t].led]}
    /\ pc' = [pc EXCEPT ![t] = "idle"]
    /\ op' = [op EXCEPT ![t] = NoOp]
    /\ local' = [local EXCEPT ![t] = NoLocal]
    /\ out' = [out EXCEPT ![t] = <<>>]
    /\ ret' = [ret EXCEPT ![t] = None]
    /\ atLock' = [atLock EXCEPT ![t] = NoLock]
    /\ repLock' = [repLock EXCEPT ![t] = NoLock]
    /\ UNCHANGED <<now, prev, py_sum, lock, records, heap, resets, lockOrder,
                   appended, returned, sinceReset, everCallers>>

\* time passes: the next time.time() reads a later clock
Tick ==
    /\ now < MaxClock
    /\ now' = now + 1
    /\ UNCHANGED <<prev, py_sum, kept, lock, records, heap, pc, op, local, out,
                   ret, resets, hist>>

\* the caller assigns to a field of the CallRecord that record returned
CallerMutates(t, duration_ms) ==
    /\ pc[t] = "done"
    /\ op[t].kind = "record"
    /\ heap[ret[t].ref].duration_ms # duration_ms
    /\ heap' = [heap EXCEPT ![ret[t].ref].duration_ms = duration_ms]
    /\ UNCHANGED <<now, prev, py_sum, kept, lock, records, pc, op, local, out, ret, resets, hist>>

\* ---------------------------------------------------------- specifications

Next ==
    \/ \E t \in Writers, a \in RecordArgs : RecordCall(t, a)
    \/ \E t \in Threads : Acquire(t)
    \/ \E t \in Writers : RecordAppend(t)
    \/ SummaryCall(Reader, "session", "")
    \/ \E arg \in ConversationArgs : SummaryCall(Reader, "conversation", arg)
    \/ \E arg \in ProviderArgs : SummaryCall(Reader, "provider", arg)
    \/ \E arg \in CallerArgs : SummaryCall(Reader, "caller", arg)
    \/ \E arg \in AgentArgs : AgentCall(Reader, arg)
    \/ Snapshot(Reader)
    \/ Aggregate(Reader)
    \/ AgentCompute(Reader)
    \/ ReportCall(Reader)
    \/ ReportNames(Reader)
    \/ ReportSort(Reader)
    \/ InnerSnapshot(Reader)
    \/ InnerCompute(Reader)
    \/ \E t \in Writers : ResetCall(t)
    \/ \E t \in Writers : ResetClear(t)
    \/ \E t \in Threads : Finish(t)

\* writer threads that call record and reset and leave the returned records
\* alone, and a reader thread that calls the queries
Spec == Init /\ [][Next]_vars

\* the steps of thread t inside a method that do not wait for the lock
Step(t) ==
    \/ RecordAppend(t)
    \/ Snapshot(t)
    \/ Aggregate(t)
    \/ AgentCompute(t)
    \/ ReportNames(t)
    \/ ReportSort(t)
    \/ InnerSnapshot(t)
    \/ InnerCompute(t)
    \/ ResetClear(t)

NextFair ==
    \/ \E t \in Writers, a \in RecordArgs :
           Len(heap) < MaxFairRecords /\ RecordCall(t, a)
    \/ \E t \in Threads : Acquire(t)
    \/ \E t \in Writers : RecordAppend(t)
    \/ SummaryCall(Reader, "session", "")
    \/ AgentCall(Reader, "jd_agent")
    \/ Snapshot(Reader)
    \/ Aggregate(Reader)
    \/ AgentCompute(Reader)
    \/ ReportCall(Reader)
    \/ ReportNames(Reader)
    \/ ReportSort(Reader)
    \/ InnerSnapshot(Reader)
    \/ InnerCompute(Reader)
    \/ \E t \in Writers : ResetCall(t)
    \/ \E t \in Writers : ResetClear(t)
    \/ \E t \in Threads : Finish(t)

\* Writers and a reader under a fair scheduler: a thread that can take a step
\* inside a method eventually takes it, and a thread waiting for the lock
\* eventually gets it if the lock is free again and again. Callers need not
\* call.
SpecFair ==
    /\ Init
    /\ [][NextFair]_vars
    /\ \A t \in Threads : WF_vars(Step(t)) /\ SF_vars(Acquire(t))

\* the durations a caller writes into a returned CallRecord
MutatedDurations == {99}

NextAlias ==
    \/ \E t \in Writers, a \in RecordArgs : RecordCall(t, a)
    \/ \E t \in Threads : Acquire(t)
    \/ \E t \in Writers : RecordAppend(t)
    \/ \E t \in Writers, d \in MutatedDurations : CallerMutates(t, d)
    \/ SummaryCall(Reader, "session", "")
    \/ Snapshot(Reader)
    \/ Aggregate(Reader)
    \/ \E t \in Threads : Finish(t)

\* writer threads that call record and assign to the CallRecord it returned,
\* and a reader thread that calls session_summary
SpecAlias == Init /\ [][NextAlias]_vars

\* the durations of the records of the ledgers on which the percentiles are
\* checked
Durations == {10, 20, 30, 40, 50}

\* the record that record(caller="jd_agent", duration_ms=d, ...) constructs
AgentRecord(d) ==
    CallRecord([provider |-> "anthropic", model |-> Model_ClaudeOpus,
                caller |-> "jd_agent", conversation_id |-> "",
                prompt_tokens |-> 200, completion_tokens |-> 100,
                duration_ms |-> d, success |-> TRUE])

\* the tracker after a thread has recorded n calls of one agent, with any
\* durations in any order, and no thread inside a method
InitPct ==
    \E n \in 0..MaxAgentRecords :
      \E ds \in [1..n -> Durations] :
        /\ now = 0
        /\ prev = NoPrev
        /\ py_sum \in SumImpls
        /\ kept = {}
        /\ heap = [i \in 1..n |-> AgentRecord(ds[i])]
        /\ records = [i \in 1..n |-> i]
        /\ lock = NoThread
        /\ pc = [t \in Threads |-> "idle"]
        /\ op = [t \in Threads |-> NoOp]
        /\ local = [t \in Threads |-> NoLocal]
        /\ out = [t \in Threads |-> <<>>]
        /\ ret = [t \in Threads |-> None]
        /\ resets = 0
        /\ atLock = [t \in Threads |-> NoLock]
        /\ repLock = [t \in Threads |-> NoLock]
        /\ lockOrder = [i \in 1..n |-> i]
        /\ appended = [i \in 1..n |-> AgentRecord(ds[i])]
        /\ returned = n
        /\ sinceReset = n
        /\ everCallers = IF n = 0 THEN {} ELSE {"jd_agent"}

NextPct ==
    \/ AgentCall(Reader, "jd_agent")
    \/ Acquire(Reader)
    \/ Snapshot(Reader)
    \/ AgentCompute(Reader)
    \/ Finish(Reader)

\* agent_observability on every ledger of up to MaxAgentRecords records of
\* one agent
SpecPct == InitPct /\ [][NextPct]_vars

\* the writer of the specifications that have one writer
Writer == CHOOSE t \in Writers : \A u \in Writers : t <= u

NextTwice ==
    \/ \E a \in RecordArgs : RecordCall(Writer, a)
    \/ \E t \in {Writer, Reader} : Acquire(t)
    \/ RecordAppend(Writer)
    \/ ResetCall(Writer)
    \/ ResetClear(Writer)
    \/ SummaryCall(Reader, "session", "")
    \/ \E arg \in ConversationArgs : SummaryCall(Reader, "conversation", arg)
    \/ \E arg \in ProviderArgs : SummaryCall(Reader, "provider", arg)
    \/ \E arg \in CallerArgs : SummaryCall(Reader, "caller", arg)
    \/ \E arg \in AgentArgs : AgentCall(Reader, arg)
    \/ Snapshot(Reader)
    \/ Aggregate(Reader)
    \/ AgentCompute(Reader)
    \/ ReportCall(Reader)
    \/ ReportNames(Reader)
    \/ ReportSort(Reader)
    \/ InnerSnapshot(Reader)
    \/ InnerCompute(Reader)
    \/ Keep(Reader)
    \/ \E t \in {Writer, Reader} : Finish(t)

\* a writer thread that calls record and reset, and a reader thread that
\* calls the queries and keeps a returned value for its later calls
SpecTwice == Init /\ [][NextTwice]_vars

NextClock ==
    \/ \E t \in Writers, a \in RecordArgs : RecordCall(t, a)
    \/ \E t \in Writers : Acquire(t)
    \/ \E t \in Writers : RecordAppend(t)
    \/ \E t \in Writers : Finish(t)
    \/ Tick

\* writer threads that call record while time passes
SpecClock == Init /\ [][NextClock]_vars

NextAgree ==
    \/ \E a \in AgreeArgs : RecordCall(Writer, a)
    \/ \E t \in {Writer, Reader} : Acquire(t)
    \/ RecordAppend(Writer)
    \/ \E arg \in AgreeNames : SummaryCall(Reader, "caller", arg)
    \/ \E arg \in AgreeNames : AgentCall(Reader, arg)
    \/ Snapshot(Reader)
    \/ Aggregate(Reader)
    \/ AgentCompute(Reader)
    \/ Keep(Reader)
    \/ \E t \in {Writer, Reader} : Finish(t)

\* a writer thread that calls record, and a reader thread that calls
\* caller_summary and agent_observability with the same names and keeps a
\* returned value for its later calls
SpecAgree == Init /\ [][NextAgree]_vars

NextPart ==
    \/ \E a \in PartArgs : RecordCall(Writer, a)
    \/ \E t \in {Writer, Reader} : Acquire(t)
    \/ RecordAppend(Writer)
    \/ SummaryCall(Reader, "session", "")
    \/ \E arg \in PartCallers : SummaryCall(Reader, "caller", arg)
    \/ \E arg \in PartProviders : SummaryCall(Reader, "provider", arg)
    \/ \E arg \in PartConversations : SummaryCall(Reader, "conversation", arg)
    \/ Snapshot(Reader)
    \/ Aggregate(Reader)
    \/ Collect(Reader)
    \/ Finish(Writer)

\* a writer thread that calls record, and a reader thread that calls the four
\* summaries and collects the values of one ledger state
SpecPart == Init /\ [][NextPart]_vars

NextPrice ==
    \/ \E a \in PriceArgs : Len(heap) < MaxPricedRecords /\ RecordCall(Writer, a)
    \/ \E t \in {Writer, Reader} : Acquire(t)
    \/ RecordAppend(Writer)
    \/ SummaryCall(Reader, "session", "")
    \/ Snapshot(Reader)
    \/ Aggregate(Reader)
    \/ \E t \in {Writer, Reader} : Finish(t)

\* a writer thread that records calls of every priced model, with and without
\* tokens, succeeded and failed, and a reader thread that calls
\* session_summary
SpecPrice == Init /\ [][NextPrice]_vars

\* ------------------------------------------------- what the claims refer to

\* the indices of the records of led that a query of this kind selects
Selected(led, kind, arg) ==
    {i \in 1..Len(led) :
        \/ kind = "session"
        \/ kind = "conversation" /\ led[i].conversation_id = arg
        \/ kind = "provider" /\ led[i].provider = arg
        \/ kind \in {"caller", "agent"} /\ led[i].caller = arg}

RECURSIVE Total(_, _, _)
Total(led, I, field) ==
    IF I = {} THEN 0
    ELSE LET i == CHOOSE j \in I : TRUE
         IN led[i][field] + Total(led, I \ {i}, field)

\* s is the aggregate of the records I of led
IsSummaryOf(s, led, I) ==
    /\ s.total_calls = Cardinality(I)
    /\ s.successful_calls = Cardinality({i \in I : led[i].success})
    /\ s.failed_calls = Cardinality({i \in I : ~led[i].success})
    /\ s.total_prompt_tokens = Total(led, I, "prompt_tokens")
    /\ s.total_completion_tokens = Total(led, I, "completion_tokens")
    /\ s.total_tokens = Total(led, I, "total_tokens")
    /\ s.total_cost_usd = Total(led, I, "estimated_cost_usd")
    /\ s.total_duration_ms = Total(led, I, "duration_ms")

\* the 0-based index the nearest-rank method picks among n values
RankIndex(n, P) == Max2(0, Min2(n - 1, (n * P) \div 100))

\* v is the value at 0-based index k of the durations of I in ascending order
IsAtRank(v, led, I, k) ==
    /\ \E i \in I : led[i].duration_ms = v
    /\ Cardinality({i \in I : led[i].duration_ms < v}) <= k
    /\ k < Cardinality({i \in I : led[i].duration_ms <= v})

\* q is the quotient n / d
IsQuotient(q, n, d) == q.den > 0 /\ q.num * d = n * q.den

\* o is what agent_observability(name) gives on the records I of led
IsObservabilityOf(o, name, led, I) ==
    /\ o.agent_name = name
    /\ o.call_count = Cardinality(I)
    /\ o.error_count = Cardinality({i \in I : ~led[i].success})
    /\ o.total_tokens = Total(led, I, "total_tokens")
    /\ o.total_cost_usd = Total(led, I, "estimated_cost_usd")
    /\ IF I = {}
       THEN /\ o.error_rate = Zero /\ o.avg_latency_ms = Zero
            /\ o.p50_latency_ms = 0 /\ o.p95_latency_ms = 0
            /\ o.max_latency_ms = 0
       ELSE /\ IsQuotient(o.error_rate, o.error_count, Cardinality(I))
            /\ IsQuotient(o.avg_latency_ms, Total(led, I, "duration_ms"), Cardinality(I))
            /\ IsAtRank(o.p50_latency_ms, led, I, RankIndex(Cardinality(I), 50))
            /\ IsAtRank(o.p95_latency_ms, led, I, RankIndex(Cardinality(I), 95))
            /\ IsAtRank(o.max_latency_ms, led, I, Cardinality(I) - 1)

\* thread t has returned from a call of a method of this kind
Returned(t, kinds) == pc[t] = "done" /\ op[t].kind \in kinds

\* ----------------------------------------------------------------- claims

\* C1: when the writer threads call record concurrently, in any
\* interleaving, and session_summary acquires the lock after all of those
\* calls have returned, with no reset called, its total_calls is the number
\* of record calls made: none is lost and none is counted twice.
C1_NoLostOrDuplicatedRecord ==
    \A t \in Threads :
        (Returned(t, {"session"}) /\ atLock[t].quiet)
            => ret[t].total_calls = atLock[t].returned

\* two record calls overlapped (the one constructed second acquired the lock
\* first), both returned, and session_summary then counted two calls
C1_Witness ==
    /\ Returned(Reader, {"session"})
    /\ atLock[Reader].quiet
    /\ atLock[Reader].returned = NWriters
    /\ ret[Reader].total_calls = NWriters
    /\ records = <<2, 1>>

\* C2: each summary method and agent_observability returns the aggregate of
\* exactly the records that were in the ledger when the call acquired the
\* lock and whose filtered field equals the argument (session_summary: all
\* records), whatever is appended or reset while the call aggregates.
C2_SnapshotAtLock ==
    \A t \in Threads :
        /\ Returned(t, SummaryKinds)
             => IsSummaryOf(ret[t], atLock[t].led,
                            Selected(atLock[t].led, op[t].kind, op[t].arg))
        /\ Returned(t, {"agent"})
             => IsObservabilityOf(ret[t], op[t].arg, atLock[t].led,
                                  Selected(atLock[t].led, "agent", op[t].arg))

\* a filtered summary returned a non-empty aggregate that leaves out a record
\* of its snapshot, and the ledger has changed since the snapshot
C2_Witness ==
    /\ Returned(Reader, {"provider"})
    /\ ret[Reader].total_calls = 1
    /\ Len(atLock[Reader].led) = 2
    /\ Ledger # atLock[Reader].led

\* C3: the value record returns is an independent copy of the stored record:
\* a mutation the caller makes to a field of the returned CallRecord does not
\* change the ledger's copy, so every record of the ledger is as it was when
\* it was appended.
C3_ReturnedRecordIsACopy == Ledger = appended

\* C4: the ledger is empty at construction, and every step either leaves the
\* record sequence unchanged, or is the append of record and adds exactly one
\* record at the end, or is the clear of reset and empties the sequence; no
\* step removes or rewrites part of it.
C4_AppendOnly ==
    /\ Ledger = <<>>
    /\ [][LET appending == {t \in Threads : /\ pc[t] = "cs"
                                            /\ op[t].kind = "record"
                                            /\ pc'[t] = "done"}
              clearing == {t \in Threads : /\ pc[t] = "cs"
                                           /\ op[t].kind = "reset"
                                           /\ pc'[t] = "done"}
          IN IF appending # {}
             THEN \E t \in appending :
                      Ledger' = Append(Ledger, heap[local[t].record])
             ELSE IF clearing # {}
                  THEN Ledger' = <<>>
                  ELSE Ledger' = Ledger]_vars

\* a reset has returned after emptying a ledger into which two record calls
\* had appended
C4_Witness ==
    /\ \E t \in Writers : Returned(t, {"reset"})
    /\ returned = 2
    /\ Len(lockOrder) = 0
    /\ Ledger = <<>>

\* C5: of two record calls with no reset between their appends, the record of
\* the call that acquired the lock first is at the lower index of the ledger,
\* whatever order the two calls were started in.
C5_LedgerInLockOrder ==
    \A i, j \in 1..Len(records) :
        i < j => \E a, b \in 1..Len(lockOrder) :
                     /\ a < b
                     /\ lockOrder[a] = records[i]
                     /\ lockOrder[b] = records[j]

\* the record constructed second is in the ledger before the one constructed
\* first, and a third one follows them
C5_Witness == records = <<2, 1, 3>>

\* C6: every read and every write of the record sequence is a step of the
\* thread that holds the lock, at most one thread holds it, the holder's next
\* step releases it, and a thread that is constructing a record, waiting,
\* aggregating or returning does not hold it.
C6_LockDiscipline ==
    /\ [](\A t \in Threads : (pc[t] \in {"cs", "i_cs"}) <=> (lock = t))
    /\ [][/\ records' # records
             => \E t \in Threads : lock = t /\ pc'[t] # pc[t]
          /\ \A t \in Threads :
                /\ (lock = t /\ pc'[t] # pc[t]) => lock' = NoThread
                /\ (lock = t /\ lock' # t) => pc'[t] # pc[t]
                /\ (/\ pc'[t] # "idle"
                    /\ \/ local'[t].records # local[t].records
                       \/ local'[t].agent_names # local[t].agent_names)
                   => lock = t]_vars

\* the reader holds the lock while one writer waits for it with its record
\* constructed and the other writer has returned from record
C6_Witness ==
    /\ lock = Reader
    /\ \E w \in Writers : pc[w] = "acq" /\ op[w].kind = "record"
    /\ \E w \in Writers : Returned(w, {"record"})

\* C7: every summary has total_calls = successful_calls + failed_calls, and
\* the total_calls of session_summary is the number of records appended since
\* the last clear of reset.
C7_TotalCalls ==
    \A t \in Threads :
        /\ Returned(t, SummaryKinds)
             => ret[t].total_calls = ret[t].successful_calls + ret[t].failed_calls
        /\ Returned(t, {"session"})
             => ret[t].total_calls = atLock[t].n

\* after two records, a reset and a third, failed, record, session_summary
\* counts one call
C7_Witness ==
    /\ Returned(Reader, {"session"})
    /\ returned = 3
    /\ ret[Reader].total_calls = 1
    /\ ret[Reader].failed_calls = 1

\* C8 as stated: observability_report has one entry for every caller value
\* ever recorded, as of the moment it took its set of names, in ascending
\* order of agent name.
C8_EveryCallerEverRecorded ==
    \A t \in Threads :
        Returned(t, {"report"})
            => LET items == ret[t].items
               IN /\ {items[k].name : k \in 1..Len(items)} = repLock[t].ever
                  /\ \A j, k \in 1..Len(items) :
                         j < k => StrLess(items[j].name, items[k].name)

\* C8 amended: observability_report has one entry for every caller value of
\* the records that were in the ledger when it took its set of names (a
\* caller whose records a reset has cleared has none), and the entries are in
\* ascending order of agent name.
C8_EveryCallerInLedger ==
    \A t \in Threads :
        Returned(t, {"report"})
            => LET items == ret[t].items
                   led == repLock[t].led
               IN /\ {items[k].name : k \in 1..Len(items)}
                        = {led[i].caller : i \in 1..Len(led)}
                  /\ \A j, k \in 1..Len(items) :
                         j < k => StrLess(items[j].name, items[k].name)

\* a report of two agents whose first record in the ledger is of the agent
\* that sorts last, taken after a reset had cleared an earlier record
C8_Witness ==
    /\ Returned(Reader, {"report"})
    /\ Len(ret[Reader].items) = 2
    /\ repLock[Reader].led[1].caller = "judge"
    /\ Len(repLock[Reader].led) = 2
    /\ returned = 3

\* C9: observability_report is not one atomic view: every entry is what
\* agent_observability(name) gives on the ledger as it was when that entry's
\* own critical section was entered, after the critical section that took
\* the names, so entries may reflect different ledger states, count records
\* appended after the names were taken, or have call_count 0.
C9_EntryPerCriticalSection ==
    \A t \in Threads :
        (op[t].kind = "report" /\ pc[t] \in {"i_acq", "done"} /\ out[t] # <<>>)
            => LET e == out[t][Len(out[t])]
               IN IsObservabilityOf(e.value, e.name, atLock[t].led,
                                    Selected(atLock[t].led, "agent", e.name))

\* a report whose first entry counts a record appended after the names were
\* taken and whose second entry has call_count 0 because of a reset after the
\* first entry
C9_Witness ==
    /\ Returned(Reader, {"report"})
    /\ Len(ret[Reader].items) = 2
    /\ ret[Reader].items[1].value.call_count = 2
    /\ Cardinality(Selected(repLock[Reader].led, "agent",
                            ret[Reader].items[1].name)) = 1
    /\ ret[Reader].items[2].value.call_count = 0

\* C10: for an agent with N >= 1 records, agent_observability returns as p50
\* and p95 the element at index clamp(floor(N*P/100), 0, N-1) of the agent's
\* durations in ascending order, with no interpolation; for the durations
\* 10, 20, 30, 40, 50 in any order, p50 = 30 and p95 = 50.
C10_NearestRank ==
    \A t \in Threads :
        Returned(t, {"agent"})
            => LET led == atLock[t].led
                   I == Selected(led, "agent", op[t].arg)
                   N == Cardinality(I)
               IN /\ N >= 1
                     => /\ IsAtRank(ret[t].p50_latency_ms, led, I,
                                    Max2(0, Min2(N - 1, (N * 50) \div 100)))
                        /\ IsAtRank(ret[t].p95_latency_ms, led, I,
                                    Max2(0, Min2(N - 1, (N * 95) \div 100)))
                  /\ (N = 5 /\ {led[i].duration_ms : i \in I} = {10, 20, 30, 40, 50})
                     => /\ ret[t].p50_latency_ms = 30
                        /\ ret[t].p95_latency_ms = 50

\* the durations 50, 10, 40, 20, 30 recorded in this order give p50 = 30 and
\* p95 = 50
C10_Witness ==
    /\ Returned(Reader, {"agent"})
    /\ [i \in 1..Len(atLock[Reader].led) |-> atLock[Reader].led[i].duration_ms]
          = <<50, 10, 40, 20, 30>>
    /\ ret[Reader].p50_latency_ms = 30
    /\ ret[Reader].p95_latency_ms = 50

\* C11: for every agent name the result of agent_observability has
\* p50_latency_ms <= p95_latency_ms <= max_latency_ms, and max_latency_ms is
\* the largest duration recorded for that agent, 0 when it has no records.
C11_PercentilesMonotone ==
    \A t \in Threads :
        Returned(t, {"agent"})
            => LET led == atLock[t].led
                   I == Selected(led, "agent", op[t].arg)
               IN /\ ret[t].p50_latency_ms <= ret[t].p95_latency_ms
                  /\ ret[t].p95_latency_ms <= ret[t].max_latency_ms
                  /\ \A i \in I : led[i].duration_ms <= ret[t].max_latency_ms
                  /\ I # {} => \E i \in I : led[i].duration_ms = ret[t].max_latency_ms
                  /\ I = {} => ret[t].max_latency_ms = 0

\* durations recorded out of order, with p50 below p95 and p95 at the maximum
C11_Witness ==
    /\ Returned(Reader, {"agent"})
    /\ Len(atLock[Reader].led) = 3
    /\ atLock[Reader].led[1].duration_ms > atLock[Reader].led[3].duration_ms
    /\ ret[Reader].p50_latency_ms < ret[Reader].p95_latency_ms
    /\ ret[Reader].p95_latency_ms = ret[Reader].max_latency_ms

\* C12: a query whose filter matches no record of the ledger returns the zero
\* aggregate: a summary method a CostSummary with every field 0, and
\* agent_observability a snapshot with agent_name the argument and every
\* count, rate, total and latency 0.
C12_ZeroAggregate ==
    \A t \in Threads :
        /\ (Returned(t, SummaryKinds)
            /\ Selected(atLock[t].led, op[t].kind, op[t].arg) = {})
             => ret[t] = [total_calls |-> 0, successful_calls |-> 0,
                          failed_calls |-> 0, total_prompt_tokens |-> 0,
                          total_completion_tokens |-> 0, total_tokens |-> 0,
                          total_cost_usd |-> 0, total_duration_ms |-> 0]
        /\ (Returned(t, {"agent"})
            /\ Selected(atLock[t].led, "agent", op[t].arg) = {})
             => ret[t] = [agent_name |-> op[t].arg, call_count |-> 0,
                          error_count |-> 0, error_rate |-> Zero,
                          total_tokens |-> 0, total_cost_usd |-> 0,
                          avg_latency_ms |-> Zero, p50_latency_ms |-> 0,
                          p95_latency_ms |-> 0, max_latency_ms |-> 0]

\* conversation_summary("") returned on a ledger that holds a record of
\* another conversation only
C12_Witness ==
    /\ Returned(Reader, {"conversation"})
    /\ Len(atLock[Reader].led) = 1
    /\ atLock[Reader].led[1].conversation_id = "conv-1"
    /\ ret[Reader].total_calls = 0

\* the fields of a CostSummary
SummaryFields ==
    {"total_calls", "successful_calls", "failed_calls", "total_prompt_tokens",
     "total_completion_tokens", "total_tokens", "total_cost_usd",
     "total_duration_ms"}

\* C13: a session_summary that takes its snapshot after a reset has cleared
\* the ledger, with no record appended between the clear and the snapshot,
\* returns a summary with every field 0, whatever the ledger held before the
\* reset.
C13_ResetThenSessionSummary ==
    \A t \in Threads :
        (Returned(t, {"session"}) /\ atLock[t].cleared >= 1 /\ atLock[t].n = 0)
            => /\ DOMAIN ret[t] = SummaryFields
               /\ \A f \in SummaryFields : ret[t][f] = 0

\* session_summary returned after two records were appended and a reset
\* cleared them
C13_Witness ==
    /\ Returned(Reader, {"session"})
    /\ atLock[Reader].cleared = 1
    /\ atLock[Reader].n = 0
    /\ atLock[Reader].returned >= 2
    /\ ret[Reader].total_calls = 0

\* C14: a query that returns after the same query with the same argument has
\* returned, with no record appended and no reset clearing between the lock
\* acquisitions of the two calls, returns the value the earlier call returned.
C14_ReadsAreIdempotent ==
    \A t \in Threads :
        (Returned(t, QueryKinds) /\ prev.op = op[t]
         /\ prev.version = atLock[t].version)
            => ret[t] = prev.ret

\* observability_report returned a second time with two agents, on a ledger
\* no record or reset touched since the first call
C14_Witness ==
    /\ Returned(Reader, {"report"})
    /\ prev.op = op[Reader]
    /\ prev.version = atLock[Reader].version
    /\ Len(prev.ret.items) = 2
    /\ ret[Reader] = prev.ret

\* C15: in every reachable state every record of the ledger has
\* total_tokens = prompt_tokens + completion_tokens.
C15_TotalTokens ==
    \A i \in DOMAIN Ledger :
        Ledger[i].total_tokens
            = Ledger[i].prompt_tokens + Ledger[i].completion_tokens

\* a ledger of a record with prompt and completion tokens and a record with
\* completion tokens only
C15_Witness ==
    /\ Len(Ledger) = 2
    /\ Ledger[1].prompt_tokens = 1000 /\ Ledger[1].completion_tokens = 500
    /\ Ledger[1].total_tokens = 1500
    /\ Ledger[2].prompt_tokens = 0 /\ Ledger[2].total_tokens = 500

\* C16: in every reachable state every record of the ledger with success
\* false has estimated_cost_usd 0, whatever its model and token counts, and
\* the total_cost_usd of a returned summary is the sum of the costs of the
\* successful records of its snapshot: failed calls add nothing to it.
C16_FailedCallsCostNothing ==
    /\ \A i \in DOMAIN Ledger :
           ~Ledger[i].success => Ledger[i].estimated_cost_usd = 0
    /\ \A t \in Threads :
           Returned(t, SummaryKinds)
               => LET led == atLock[t].led
                      I == Selected(led, op[t].kind, op[t].arg)
                  IN ret[t].total_cost_usd
                         = Total(led, {i \in I : led[i].success},
                                 "estimated_cost_usd")

\* session_summary returned on a failed claude-opus call with tokens and a
\* successful GPT-4o-mini call
C16_Witness ==
    /\ Returned(Reader, {"session"})
    /\ Len(atLock[Reader].led) = 2
    /\ ~atLock[Reader].led[1].success
    /\ atLock[Reader].led[1].model = Model_ClaudeOpus
    /\ atLock[Reader].led[1].total_tokens = 1500
    /\ atLock[Reader].led[2].success
    /\ atLock[Reader].led[2].model = Model_GPT4oMini
    /\ ret[Reader].failed_calls = 1
    /\ ret[Reader].total_cost_usd = 1000 * 15 + 500 * 60

\* the entries of the pricing table whose prefix occurs in the lower-cased
\* model identifier
MatchingEntries(model) ==
    {k \in DOMAIN DEFAULT_PRICING :
        Contains(DEFAULT_PRICING[k].prefix, lower(model))}

\* C17: the cost of a successful record is that of the first table entry, in
\* table order, whose prefix occurs as a case-insensitive substring of the
\* model identifier: prompt tokens times its prompt rate plus completion
\* tokens times its completion rate (rates per 1000 tokens); it is that of
\* the fallback rates when no entry matches. In the table every prefix that
\* contains another prefix precedes it, and an identifier containing
\* "gpt-4o-mini" is priced at the gpt-4o-mini rates.
C17_FirstMatchPricing ==
    /\ \A i \in DOMAIN Ledger :
           Ledger[i].success
               => LET r == Ledger[i]
                      M == MatchingEntries(r.model)
                  IN IF M = {}
                     THEN r.estimated_cost_usd
                              = r.prompt_tokens * 300
                                + r.completion_tokens * 1500
                     ELSE LET k == CHOOSE x \in M : \A y \in M : x <= y
                          IN r.estimated_cost_usd
                                 = r.prompt_tokens
                                       * DEFAULT_PRICING[k].prompt_rate
                                   + r.completion_tokens
                                       * DEFAULT_PRICING[k].completion_rate
    /\ \A i, j \in DOMAIN DEFAULT_PRICING :
           (i # j /\ Contains(DEFAULT_PRICING[j].prefix,
                              DEFAULT_PRICING[i].prefix))
               => i < j
    /\ \A i \in DOMAIN Ledger :
           (Ledger[i].success /\ Ledger[i].model = Model_GPT4oMini)
               => Ledger[i].estimated_cost_usd
                      = Ledger[i].prompt_tokens * 15
                        + Ledger[i].completion_tokens * 60

\* a ledger of a successful "GPT-4o-mini" call, which the entries gpt-4o-mini
\* and gpt-4o both match, and a successful call of an unknown model with 1000
\* prompt tokens and no completion tokens, priced at the fallback prompt rate
C17_Witness ==
    /\ Len(Ledger) = 2
    /\ Ledger[1].model = Model_GPT4oMini /\ Ledger[1].success
    /\ Cardinality(MatchingEntries(Ledger[1].model)) = 2
    /\ Ledger[1].estimated_cost_usd = 1000 * 15 + 500 * 60
    /\ Ledger[2].model = Model_Unknown /\ Ledger[2].success
    /\ MatchingEntries(Ledger[2].model) = {}
    /\ Ledger[2].prompt_tokens = 1000 /\ Ledger[2].completion_tokens = 0
    /\ Ledger[2].estimated_cost_usd = 1000 * 300

\* C18: the fallback rates are higher than every rate of the table, so a
\* successful record of any model costs at most what an unknown model costs
\* for the same token counts.
C18_FallbackIsHighest ==
    \A i \in DOMAIN Ledger :
        Ledger[i].success
            => Ledger[i].estimated_cost_usd
                   <= estimate_cost(Model_Unknown, Ledger[i].prompt_tokens,
                                    Ledger[i].completion_tokens)

\* C19 as stated: the timestamps of the records of the ledger are
\* non-decreasing in ledger order, also when several threads call record
\* concurrently.
C19_TimestampsInLedgerOrder ==
    \A i, j \in DOMAIN Ledger :
        i < j => Ledger[i].timestamp <= Ledger[j].timestamp

\* C19: with a clock that does not step back, the timestamps of the records
\* of the ledger are non-decreasing in the order in which the record calls
\* constructed them; they are non-decreasing in ledger order for every two
\* records that were appended in the order of their construction.
C19_TimestampsInConstructionOrder ==
    \A i, j \in DOMAIN records :
        (i < j /\ records[i] < records[j])
            => heap[records[i]].timestamp <= heap[records[j]].timestamp

\* three records constructed at three readings of the clock, the second one
\* appended before the first
C19_Witness ==
    /\ records = <<2, 1, 3>>
    /\ heap[1].timestamp < heap[2].timestamp
    /\ heap[2].timestamp < heap[3].timestamp

\* thread t is inside a method
InCall(t) == pc[t] \notin {"idle", "done"}

SameLedger(t) ==
    /\ Returned(t, {"agent", "caller"})
    /\ prev.op.kind \in {"agent", "caller"} \ {op[t].kind}
    /\ prev.op.arg = op[t].arg
    /\ prev.version = atLock[t].version

\* of the two values, the AgentObservability and the CostSummary
Observed(t) == IF op[t].kind = "agent" THEN ret[t] ELSE prev.ret
Summed(t) == IF op[t].kind = "agent" THEN prev.ret ELSE ret[t]

\* the counts and the token total of the two values agree, and the error
\* rate is error_count / call_count, between 0 and 1
CountsAgree(o, s) ==
    /\ o.call_count = s.total_calls
    /\ o.error_count = s.failed_calls
    /\ o.total_tokens = s.total_tokens
    /\ o.error_count <= o.call_count
    /\ o.error_rate.den > 0
    /\ 0 <= o.error_rate.num /\ o.error_rate.num <= o.error_rate.den
    /\ o.call_count > 0
           => o.error_rate.num * o.call_count
                  = o.error_count * o.error_rate.den

\* C21 as stated: on the same ledger state agent_observability(a) and
\* caller_summary(a) agree in call count, error count, total tokens and
\* total cost, and the error rate lies between 0 and 1.
C21_AgentEqualsCallerSummary ==
    \A t \in Threads :
        SameLedger(t)
            => /\ CountsAgree(Observed(t), Summed(t))
               /\ Observed(t).total_cost_usd = Summed(t).total_cost_usd

\* C21: on the same ledger state agent_observability(a) and
\* caller_summary(a) agree in call count, error count and total tokens, and
\* the error rate is error_count / call_count, between 0 and 1. The two
\* total costs are equal where sum() adds from left to right; where sum() is
\* compensated they differ by at most one rounding step for each record.
C21_AgentAgreesWithCallerSummary ==
    \A t \in Threads :
        SameLedger(t)
            => LET o == Observed(t)
                   s == Summed(t)
                   hi == Max2(o.total_cost_usd, s.total_cost_usd)
               IN /\ CountsAgree(o, s)
                  /\ py_sum = "left_to_right"
                         => o.total_cost_usd = s.total_cost_usd
                  /\ Abs(o.total_cost_usd - s.total_cost_usd)
                         <= o.call_count * Quantum(hi, 1)

\* agent_observability("judge") returned after caller_summary("judge"), on a
\* ledger of three successful calls of judge, with sum() compensated and the
\* two total costs one rounding step apart
C21_Witness ==
    /\ SameLedger(Reader)
    /\ op[Reader].kind = "agent"
    /\ py_sum = "compensated"
    /\ ret[Reader].call_count = 3
    /\ prev.ret.total_calls = 3
    /\ ret[Reader].total_tokens = prev.ret.total_tokens
    /\ ret[Reader].total_cost_usd + 2 = prev.ret.total_cost_usd

\* the integer fields of a CostSummary
CountFields ==
    {"total_calls", "successful_calls", "failed_calls", "total_prompt_tokens",
     "total_completion_tokens", "total_tokens"}

\* the field of a CallRecord that a summary method filters on
FilteredField(kind) ==
    CASE kind = "caller" -> "caller"
      [] kind = "provider" -> "provider"
      [] kind = "conversation" -> "conversation_id"

\* the sum of field f of the summaries ks
RECURSIVE SumOf(_, _)
SumOf(ks, f) ==
    IF ks = {} THEN 0
    ELSE LET k == CHOOSE x \in ks : TRUE
         IN k.ret[f] + SumOf(ks \ {k}, f)

\* C22: on one ledger state, the caller_summary values of the distinct
\* callers of the ledger add up to session_summary in the call counts and
\* the three token totals, and so do the provider_summary values of the
\* distinct providers and the conversation_summary values of the distinct
\* conversation ids, the empty string being one of them; every summary has
\* total_tokens = total_prompt_tokens + total_completion_tokens.
C22_SummariesPartitionSession ==
    /\ \A s \in kept :
           s.op.kind = "session"
               => \A kind \in SummaryKinds \ {"session"} :
                      LET values == {s.led[i][FilteredField(kind)] :
                                         i \in DOMAIN s.led}
                          parts == {k \in kept : /\ k.op.kind = kind
                                                 /\ k.version = s.version
                                                 /\ k.op.arg \in values}
                      IN ({k.op.arg : k \in parts} = values
                          /\ Cardinality(parts) = Cardinality(values))
                             => \A f \in CountFields :
                                    SumOf(parts, f) = s.ret[f]
    /\ \A k \in kept :
           k.ret.total_tokens
               = k.ret.total_prompt_tokens + k.ret.total_completion_tokens
    /\ \A t \in Threads :
           Returned(t, SummaryKinds)
               => ret[t].total_tokens
                      = ret[t].total_prompt_tokens
                        + ret[t].total_completion_tokens

\* the reader has collected, of one ledger of three records, the
\* session_summary and the conversation_summary of "" with two records and
\* of "conv-1" with one
C22_Witness ==
    \E s, a, b \in kept :
        /\ s.op.kind = "session" /\ Len(s.led) = 3
        /\ s.ret.total_calls = 3
        /\ a.op = [kind |-> "conversation", arg |-> ""]
        /\ b.op = [kind |-> "conversation", arg |-> "conv-1"]
        /\ a.version = s.version /\ b.version = s.version
        /\ a.ret.total_calls = 2 /\ b.ret.total_calls = 1
        /\ a.ret.total_tokens + b.ret.total_tokens = s.ret.total_tokens
        /\ s.ret.total_tokens > 0

====
